---- MODULE Spec2Model ----
(***************************************************************************)
(* Catalog synchronization client (FacebookCatalogService).                *)
(*                                                                         *)
(* The repository holds three revisions of the service:                    *)
(*   "A"  src/services/facebookService.ts lines 13-273                     *)
(*        first-failure batch errors, single-page getProducts,             *)
(*        imperative updateSet;                                            *)
(*   "B"  src/services/facebookService.ts lines 297-785                    *)
(*        per-item batch errors with the OAuth marker, paginated           *)
(*        getProducts, declarative updateSet;                              *)
(*   "C"  src/unnamed/part_000                                             *)
(*        first-failure batch errors, single-page getProducts,             *)
(*        declarative updateSet, refreshProductsStatus.                    *)
(* The revision is fixed when the client is constructed.                   *)
(*                                                                         *)
(* The specifications share the variables:                                 *)
(*   Spec        one batched operation (add/delete/refresh)                *)
(*   SpecPages   one getProducts call over a chain of provider pages       *)
(*   SpecSet     a write of one provider set (updateSet calls in a row,    *)
(*               or createSet), then getSets                               *)
(*   SpecList    getSets on a catalog of several sets                      *)
(*   SpecRace    two updateSet calls on one set, in flight together        *)
(*   SpecCatalog the product manager's session: fetch, submissions of      *)
(*               the add-products form, deletions                          *)
(*   SpecWrite   that session with one submission or deletion              *)
(*   SpecWriteFair  SpecWrite under a fair random generator                *)
(*   SpecProduct edits of one product through updateProduct, each read     *)
(*               back                                                      *)
(*   SpecTransport one request through apiRequest or batchRequest          *)
(***************************************************************************)
EXTENDS Integers, Sequences, FiniteSets, TLC

\* ------------------------------------------------------------------ bounds
\* longest input list of a batched operation
MaxInputs == 3

\* the provider's limit of sub-operations per physical batch call
MaxBatchSize == 2

\* longest chain of pages the provider serves, and the most items on one page
MaxPages == 3
MaxPageSize == 2

\* longest desired-membership list handed to updateSet, and how many times in
\* a row the client calls it
MaxDesired == 3
MaxCalls == 2

\* the product manager's session: candidate SKUs, rows of one submission (and
\* products of one deletion), writes of one session
SkuBase == 100000
SkuSpan == 3
MaxRows == 2
MaxWrites == 2

\* the most sets one catalog holds
MaxSets == 2

\* longest desired list of each of two updateSet calls in flight together
MaxRaceDesired == 2

\* the product editor: the highest price (in hundredths of the currency unit)
\* and the highest stock it submits; the parts into which one minor unit is
\* divided to place the rounding error of a floating-point product
MaxPrice == 2
MaxInventory == 1
FloatScale == 4

\* product IDs that can be members of the set
ProductIDs == {"a", "b", "c", "d"}

\* identifying fields (product IDs, set IDs, SKUs) of the batch inputs
IDs == {"a", "b"}

\* ------------------------------------------------------------ helper: seqs
SeqsUpTo(S, n) == UNION {[1..k -> S] : k \in 0..n}

\* ---------------------------------------------------- provider sub-responses
\* A sub-response body after JSON.parse: parses = FALSE when JSON.parse throws;
\* message = "" stands for an absent (or empty, equally falsy) error.message.
Body(parses, hasError, message, type, code, id, review) ==
  [parses |-> parses, hasError |-> hasError, message |-> message,
   type |-> type, code |-> code, id |-> id, review_status |-> review]

Unparseable == Body(FALSE, FALSE, "", "", 0, "", "")
PlainBody   == Body(TRUE, FALSE, "", "", 0, "", "")
ErrBody(m, t, c) == Body(TRUE, TRUE, m, t, c, "", "")

\* error classes the provider can put in a nested error: <<type, code>>
ErrClasses == {<<"OAuthException", 190>>, <<"GraphMethodException", 1>>,
               <<"GraphMethodException", 100>>}

ErrBodies == {Unparseable, PlainBody}
             \cup {ErrBody(m, tc[1], tc[2]) : m \in {"", "msg"}, tc \in ErrClasses}

\* One element of the batch response array. present = FALSE is a null entry
\* (the provider's answer for a sub-request it did not complete).
SubResponse(present, code, body) == [present |-> present, code |-> code, body |-> body]

NullEntry      == SubResponse(FALSE, 0, Unparseable)
OkEntry        == SubResponse(TRUE, 200, PlainBody)
\* an object without code and body: code is undefined, JSON.parse(undefined) throws
MalformedEntry == SubResponse(TRUE, -1, Unparseable)

WriteEntries == {NullEntry, OkEntry, MalformedEntry}
                \cup {SubResponse(TRUE, 400, b) : b \in ErrBodies}

ReviewValues == {"", "approved", "rejected"}

StatusEntries == {NullEntry, SubResponse(TRUE, 400, Unparseable),
                  SubResponse(TRUE, 200, Unparseable)}
                 \cup {SubResponse(TRUE, 200, Body(TRUE, FALSE, "", "", 0, i, r)) :
                         i \in IDs, r \in ReviewValues}

\* ------------------------------------------------------------------ state
VARIABLES
  revision,        \* which revision of the service the client was built from
  op,              \* the facade operation under way
  inputs,          \* its input list (identifying field of each item)
  pc,              \* "start" | "awaiting" | "done"
  calls,           \* physical network requests issued so far
  batchResponses,  \* the array batchRequest returned (<< >> before / on throw)
  result,          \* what the caller got
  pages,           \* provider: the chain of pages of the product collection
  nextUrl,         \* getProducts: page the loop fetches next, 0 for null
  allProductsData, \* getProducts: the accumulator
  membership,      \* provider: the product IDs in the set being updated
  setName,         \* provider: the name of that set
  callNo,          \* updateSet: which call of the client's sequence is under way
  currentProductIds, \* updateSet (imperative): the member list it read
  idsToAdd,        \* updateSet (imperative): its diff
  idsToRemove,
  returns,         \* [call, membership, op] at each successful return of a set write
  membersBefore,   \* provider: the members of the set when the call under way began
  catalog,         \* provider: the products of the catalog, [id, retailer_id]
  nextId,          \* provider: the id it gives the next product
  products,        \* ProductManager: the product list the client last fetched
  existingRetailerIds, \* handleSubmit: the SKUs its loop knows to be taken
  productsToSubmit,    \* handleSubmit: the SKUs of the rows it has prepared
  rowsLeft,        \* handleSubmit: rows of the form still without SKU
  writesLeft,      \* submissions and deletions the session still makes
  item,            \* provider: the fields of the product being edited
  sets,            \* provider: the other sets of the catalog, [id, name, members]
  twin,            \* getSets run by a client with a logger and by one without
  procs            \* the updateSet calls in flight on one set, one per caller

batchVars == <<batchResponses>>
pageVars  == <<pages, nextUrl, allProductsData>>
diffVars  == <<currentProductIds, idsToAdd, idsToRemove>>
setVars   == <<membership, setName, callNo, diffVars, returns, membersBefore>>
catalogVars == <<catalog, nextId, products, existingRetailerIds, productsToSubmit,
                 rowsLeft, writesLeft>>
sideVars == <<item, sets, twin, procs>>
vars == <<revision, op, inputs, pc, calls, result, batchVars, pageVars, setVars,
          catalogVars, sideVars>>

Revisions == {"A", "B", "C"}
WriteOps  == {"addProducts", "deleteProducts", "deleteSets"}

\* operations a revision offers through batchRequest
BatchOps(rev) == IF rev = "C" THEN WriteOps \cup {"refreshProductsStatus"} ELSE WriteOps

NoResult == [kind |-> "none", value |-> << >>, errKind |-> "", message |-> "",
             details |-> << >>, failed |-> 0, oauth |-> FALSE, statusMap |-> << >>]

Returned(v) == [NoResult EXCEPT !.kind = "ok", !.value = v]

\* ------------------------------------------------- Response Reconciler
\* the filter of every revision: res && res.code !== 200
IsFailure(res) == res.present /\ res.code # 200

RECURSIVE FailureIndices(_, _)
\* batchResponses.map((res, index) => ({res, index})).filter(IsFailure):
\* the original indices of the failures from position `from` on, ascending
FailureIndices(resp, from) ==
  IF from > Len(resp) THEN << >>
  ELSE IF IsFailure(resp[from]) THEN <<from>> \o FailureIndices(resp, from + 1)
       ELSE FailureIndices(resp, from + 1)

\* errorBody.error && errorBody.error.message, after a JSON.parse that succeeded
HasErrorMessage(body) == body.parses /\ body.hasError /\ body.message # ""

\* type === 'OAuthException' || code === 1, inside the HasErrorMessage branch
SetsAuthFlag(body) ==
  HasErrorMessage(body) /\ (body.type = "OAuthException" \/ body.code = 1)

\* the text appended to one failure's detail line
DetailText(body) ==
  IF ~body.parses THEN "Could not parse error response."
  ELSE IF HasErrorMessage(body) THEN body.message
  ELSE "An unknown API error occurred."

\* the input whose identifying field failure number k of the list is reported with
DetailIndex(failures, k) == failures[k]

\* revision B: one detail per failure, the OAuth marker when isAuthError was set
DetailedError(in, resp) ==
  LET failures == FailureIndices(resp, 1) IN
  [NoResult EXCEPT
     !.kind = "error", !.errKind = "aggregate",
     !.failed = Len(failures),
     !.details = [k \in 1..Len(failures) |->
                    [ident |-> in[DetailIndex(failures, k)],
                     text  |-> DetailText(resp[failures[k]].body)]],
     !.oauth = \E k \in 1..Len(failures) : SetsAuthFlag(resp[failures[k]].body)]

\* revisions A and C: the message of failedResponses[0] alone, or a fixed text
FirstFailureError(resp) ==
  LET failures == FailureIndices(resp, 1)
      first    == resp[failures[1]].body IN
  [NoResult EXCEPT
     !.kind = "error", !.errKind = "aggregate",
     !.message = IF HasErrorMessage(first) THEN first.message
                 ELSE "One or more items failed."]

\* what a batched write hands its caller once batchRequest has returned resp
ReconcileWrite(rev, in, resp) ==
  IF Len(FailureIndices(resp, 1)) > 0
  THEN IF rev = "B" THEN DetailedError(in, resp) ELSE FirstFailureError(resp)
  ELSE Returned(resp)

\* body.review_status || 'pending'
ReviewStatus(body) == IF body.review_status = "" THEN "pending" ELSE body.review_status

RECURSIVE StatusMap(_, _)
\* refreshProductsStatus: batchResponses.forEach over the first n responses;
\* statusMap.set(body.id, ...) for each one with code 200 whose body parses
StatusMap(resp, n) ==
  IF n = 0 THEN << >>
  ELSE LET before == StatusMap(resp, n - 1)
           res    == resp[n] IN
       IF res.present /\ res.code = 200 /\ res.body.parses
       THEN [key \in DOMAIN before \cup {res.body.id} |->
               IF key = res.body.id THEN ReviewStatus(res.body) ELSE before[key]]
       ELSE before

\* a status refresh that raises as the batched writes do
ReconcileStatusRaising(resp) ==
  IF \E i \in 1..Len(resp) : IsFailure(resp[i])
  THEN [NoResult EXCEPT !.kind = "error", !.errKind = "aggregate"]
  ELSE [Returned(<< >>) EXCEPT !.statusMap = StatusMap(resp, Len(resp))]

\* refreshProductsStatus after its batchRequest: the map is returned whatever
\* the sub-responses were
ReconcileStatus(resp) == [Returned(<< >>) EXCEPT !.statusMap = StatusMap(resp, Len(resp))]

\* ------------------------------------------------------ batched operations
\* a batched operation without its empty-input guard
ShortCircuitsNever(in) == FALSE

\* `if (x.length === 0) return []` / `return new Map()` of every batched operation
ShortCircuits(in) == Len(in) = 0

\* the physical call batchRequest makes: every sub-request in one POST
\* the credential the service was constructed with
AccessToken == "apiToken"

\* a request sent as it is
Anonymous(call) == call

\* url.searchParams.append('access_token', this.apiToken), in apiRequest and in
\* batchRequest of every revision
Authorize(call) == [call EXCEPT !.token = AccessToken]

BatchCall(in) ==
  Authorize([kind |-> "batch", subs |-> in, hasFilter |-> FALSE, page |-> 0,
             call |-> 1, status |-> "pending", token |-> ""])

\* the request log with the outcome of the request in flight filled in
Settle(log, outcome) == [log EXCEPT ![Len(log)].status = outcome]

\* the operation up to its `await this.batchRequest(requests)`
Invoke ==
  /\ pc = "start"
  /\ IF ShortCircuits(inputs)
     THEN /\ pc' = "done"
          /\ result' = Returned(<< >>)
          /\ calls' = calls
     ELSE /\ pc' = "awaiting"
          /\ calls' = Append(calls, BatchCall(inputs))
          /\ result' = result
  /\ UNCHANGED <<revision, op, inputs, batchResponses, pageVars, setVars,
                 catalogVars, sideVars>>

\* elements the provider may put in the response array of this operation
Entries(o) == IF o = "refreshProductsStatus" THEN StatusEntries ELSE WriteEntries

\* provider: the body of a successful GET {id}?fields=... is the node with that id
Answers(o, in, resp) ==
  o = "refreshProductsStatus" =>
    \A i \in 1..Len(resp) :
      (resp[i].present /\ resp[i].code = 200 /\ resp[i].body.parses)
        => resp[i].body.id = in[i]

\* batchRequest resolves with an array; the rest of the operation runs
BatchReturn ==
  /\ pc = "awaiting"
  /\ \E resp \in SeqsUpTo(Entries(op), Len(inputs)) :
       /\ Answers(op, inputs, resp)
       /\ batchResponses' = resp
       /\ result' = IF op = "refreshProductsStatus" THEN ReconcileStatus(resp)
                    ELSE ReconcileWrite(revision, inputs, resp)
  /\ pc' = "done"
  /\ calls' = Settle(calls, "ok")
  /\ UNCHANGED <<revision, op, inputs, pageVars, setVars,
                 catalogVars, sideVars>>

\* batchRequest throws (HTTP status not ok, or a body that is not JSON); the
\* operation's catch logs and rethrows. Only revision B appends the OAuth text.
BatchThrow ==
  /\ pc = "awaiting"
  /\ \E flag \in (IF revision = "B" THEN BOOLEAN ELSE {FALSE}) :
       result' = [NoResult EXCEPT !.kind = "error", !.errKind = "transport",
                                  !.oauth = flag]
  /\ pc' = "done"
  /\ calls' = Settle(calls, "failed")
  /\ UNCHANGED <<revision, op, inputs, batchResponses, pageVars, setVars,
                 catalogVars, sideVars>>

Init ==
  /\ revision \in Revisions
  /\ op \in BatchOps(revision)
  /\ inputs \in SeqsUpTo(IDs, MaxInputs)
  /\ pc = "start"
  /\ calls = << >>
  /\ batchResponses = << >>
  /\ result = NoResult
  /\ pages = << >>
  /\ nextUrl = 0
  /\ allProductsData = << >>
  /\ membership = {}
  /\ setName = ""
  /\ callNo = 1
  /\ currentProductIds = << >>
  /\ idsToAdd = << >>
  /\ idsToRemove = << >>
  /\ returns = << >>
  /\ membersBefore = {}
  /\ catalog = {}
  /\ nextId = 1
  /\ products = {}
  /\ existingRetailerIds = {}
  /\ productsToSubmit = << >>
  /\ rowsLeft = 0
  /\ writesLeft = 0
  /\ item = << >>
  /\ sets = << >>
  /\ twin = << >>
  /\ procs = << >>

Next == Invoke \/ BatchReturn \/ BatchThrow

Spec == Init /\ [][Next]_vars

\* ------------------------------------------------------- Pagination Merger
\* The provider serves the collection as pages 1..Len(pages); page i carries
\* paging.next (the URL of page i + 1) exactly when it is not the last one.
\* Item j of page i is the raw product with id <<i, j>>.
PageData(sizes, i) == [j \in 1..sizes[i] |-> [id |-> <<i, j>>]]

Chains == {[i \in 1..Len(sizes) |-> [data |-> PageData(sizes, i), next |-> i < Len(sizes)]] :
             sizes \in SeqsUpTo(0..MaxPageSize, MaxPages) \ {<< >>}}

\* allProductsData.map(p => ({id: p.id, ...})): raw provider item to Product
ToProduct(p) == [id |-> p.id]
MapProducts(raw) == [k \in 1..Len(raw) |-> ToProduct(raw[k])]

\* if (responseData.data && responseData.data.length > 0) concat
Accumulate(acc, page) == IF Len(page.data) > 0 THEN acc \o page.data ELSE acc

\* a loop that gives up on a page without items
FollowNextUnlessEmpty(url, page) == IF page.next /\ Len(page.data) > 0 THEN url + 1 ELSE 0

\* nextUrl after a page: paging.next when present, else null
FollowNext(url, page) == IF page.next THEN url + 1 ELSE 0

\* a merger that returns what it has when a page fails
PageFailurePartial(acc) == Returned(MapProducts(acc))

\* what getProducts hands its caller when a page fetch fails: catch, log, rethrow
PageFailure(acc) == [NoResult EXCEPT !.kind = "error", !.errKind = "transport"]

\* revision B: the first URL is written out with access_token=${this.apiToken}
FirstUrl(call) == [call EXCEPT !.token = AccessToken]

\* the provider's paging.next repeats the query of the request it answers, the
\* access_token included
PagingToken(answered) == answered.token

\* revisions A and C fetch through apiRequest; revision B fetches the first URL
\* and then the URLs the provider supplies, adding only the cache buster
PageCall(url, outcome) ==
  LET call == [kind |-> "page", subs |-> << >>, hasFilter |-> FALSE,
               page |-> url, call |-> 1, status |-> outcome, token |-> ""]
  IN  IF revision # "B" THEN Authorize(call)
      ELSE IF url = 1 THEN FirstUrl(call)
      ELSE [call EXCEPT !.token = PagingToken(calls[Len(calls)])]

\* revisions A and C: one apiRequest with limit=500, response.data mapped
GetProductsSinglePage ==
  /\ pc = "start" /\ op = "getProducts" /\ revision # "B"
  /\ \/ /\ calls' = Append(calls, PageCall(1, "ok"))
        /\ result' = Returned(MapProducts(pages[1].data))
     \/ /\ calls' = Append(calls, PageCall(1, "failed"))
        /\ result' = PageFailure(<< >>)
  /\ pc' = "done"
  /\ UNCHANGED <<revision, op, inputs, batchVars, pageVars, setVars,
                 catalogVars, sideVars>>

\* revision B: nextUrl is set to the first URL, the accumulator to []
GetProductsStart ==
  /\ pc = "start" /\ op = "getProducts" /\ revision = "B"
  /\ nextUrl' = 1
  /\ allProductsData' = << >>
  /\ pc' = "paging"
  /\ UNCHANGED <<revision, op, inputs, calls, result, batchVars, pages, setVars,
                 catalogVars, sideVars>>

\* revision B: one iteration of while (nextUrl), the fetch answered with ok
FetchPage ==
  /\ pc = "paging" /\ nextUrl # 0
  /\ calls' = Append(calls, PageCall(nextUrl, "ok"))
  /\ allProductsData' = Accumulate(allProductsData, pages[nextUrl])
  /\ nextUrl' = FollowNext(nextUrl, pages[nextUrl])
  /\ UNCHANGED <<revision, op, inputs, pc, result, batchVars, pages, setVars,
                 catalogVars, sideVars>>

\* the loop goes round again with the same URL
RetryPage == "paging"

\* throw new Error(message) leaves the loop and the operation
AfterPageFailure == "done"

\* revision B: the fetch of the page fails (rejects, or status not ok): throw
FetchPageFails ==
  /\ pc = "paging" /\ nextUrl # 0
  /\ calls' = Append(calls, PageCall(nextUrl, "failed"))
  /\ result' = PageFailure(allProductsData)
  /\ pc' = AfterPageFailure
  /\ UNCHANGED <<revision, op, inputs, batchVars, pageVars, setVars,
                 catalogVars, sideVars>>

\* revision B: the loop has ended; map and return
GetProductsReturn ==
  /\ pc = "paging" /\ nextUrl = 0
  /\ result' = Returned(MapProducts(allProductsData))
  /\ pc' = "done"
  /\ UNCHANGED <<revision, op, inputs, calls, batchVars, pageVars, setVars,
                 catalogVars, sideVars>>

InitPages ==
  /\ revision \in Revisions
  /\ op = "getProducts"
  /\ inputs = << >>
  /\ pc = "start"
  /\ calls = << >>
  /\ batchResponses = << >>
  /\ result = NoResult
  /\ pages \in Chains
  /\ nextUrl = 0
  /\ allProductsData = << >>
  /\ membership = {}
  /\ setName = ""
  /\ callNo = 1
  /\ currentProductIds = << >>
  /\ idsToAdd = << >>
  /\ idsToRemove = << >>
  /\ returns = << >>
  /\ membersBefore = {}
  /\ catalog = {}
  /\ nextId = 1
  /\ products = {}
  /\ existingRetailerIds = {}
  /\ productsToSubmit = << >>
  /\ rowsLeft = 0
  /\ writesLeft = 0
  /\ item = << >>
  /\ sets = << >>
  /\ twin = << >>
  /\ procs = << >>

NextPages ==
  \/ GetProductsSinglePage
  \/ GetProductsStart
  \/ FetchPage
  \/ FetchPageFails
  \/ GetProductsReturn

SpecPages == InitPages /\ [][NextPages]_vars

\* every fetch is eventually answered, and the code after an await then runs
SpecPagesFair == SpecPages /\ WF_vars(NextPages)

\* ---------------------------------------------------------- Set Diff Engine
Range(s) == {s[i] : i \in 1..Len(s)}

\* the orders in which the provider may list the members of a set
Orderings(S) == {f \in [1..Cardinality(S) -> S] : \A i, j \in DOMAIN f : f[i] = f[j] => i = j}

RECURSIVE Without(_, _)
\* list.filter(id => !other.has(id)): the elements of list outside the set other
Without(list, other) ==
  IF list = << >> THEN << >>
  ELSE IF Head(list) \in other THEN Without(Tail(list), other)
       ELSE <<Head(list)>> \o Without(Tail(list), other)

\* a diff that re-adds every desired ID
IdsToAddAll(productIds, current) == productIds

\* productIds.filter(id => !currentProductIdsSet.has(id))
IdsToAdd(productIds, current) == Without(productIds, Range(current))

\* a diff that removes every current member
IdsToRemoveAll(productIds, current) == current

\* currentProductIds.filter(id => !newProductIdsSet.has(id))
IdsToRemove(productIds, current) == Without(current, Range(productIds))

\* declarative: product_item_id: { is_any: productIds.length > 0 ? productIds : [] }
Filter(productIds) == IF Len(productIds) > 0 THEN productIds ELSE << >>

\* an updateSet payload that leaves the filter out for an empty list
UpdatePayloadOmitsEmpty(productIds) ==
  [hasFilter |-> Len(productIds) > 0, is_any |-> productIds]

\* updateSet's payload { name, filter }: the filter is always part of it
UpdatePayload(productIds) == [hasFilter |-> TRUE, is_any |-> Filter(productIds)]

\* createSet's payload { name, filter? }: `if (productIds.length > 0) payload.filter = ...`
CreatePayload(productIds) ==
  [hasFilter |-> Len(productIds) > 0, is_any |-> productIds]

\* a provider that adds the listed IDs to the members it has
Merged(payload, unfiltered) == unfiltered \cup Range(payload.is_any)

\* provider: the members of a set after a write with this payload; a payload
\* without a filter leaves the set's filter, and so its members, as they were
Filtered(payload, unfiltered) ==
  IF payload.hasFilter THEN Range(payload.is_any) ELSE unfiltered

\* provider: the members a set created without a filter may have. Revision A
\* treats membership as a list of items added one request at a time, so its new
\* set has none; a filter-defined set without a filter holds what the provider
\* decides (any part of the catalog)
NewSetMembers(rev) == IF rev = "A" THEN {{}} ELSE SUBSET ProductIDs

SetCall(kind, ids, outcome) ==
  Authorize([kind |-> kind, subs |-> ids, hasFilter |-> FALSE, page |-> 0,
             call |-> callNo, status |-> outcome, token |-> ""])

\* a request whose body is a declarative payload
FilterCall(kind, payload, outcome) ==
  [SetCall(kind, payload.is_any, outcome) EXCEPT !.hasFilter = payload.hasFilter]

\* updateSet's catch: log and rethrow
SetFailure == [NoResult EXCEPT !.kind = "error", !.errKind = "transport"]

\* return { id: setId, name, productIds }
SetReturned(productIds) == Returned(productIds)

\* an updateSet that issues its remove and add requests whatever the diff
AfterDiffAlways(toRemove, toAdd) == "remove"

\* additions before removals
AfterDiffAddFirst(toRemove, toAdd) ==
  IF Len(toAdd) > 0 THEN "add" ELSE IF Len(toRemove) > 0 THEN "remove" ELSE "return"

\* the request updateSet issues after its diff, or its return when none is left
AfterDiff(toRemove, toAdd) ==
  IF Len(toRemove) > 0 THEN "remove" ELSE IF Len(toAdd) > 0 THEN "add" ELSE "return"

\* imperative createSet after the set exists: `if (productIds.length > 0)`
AfterCreate(productIds) == IF Len(productIds) > 0 THEN "members" ELSE "return"

\* a set write returns normally: the provider's membership at that moment is kept
Return(members) ==
  /\ pc' = "done"
  /\ result' = SetReturned(inputs)
  /\ returns' = Append(returns, [call |-> callNo, membership |-> members, op |-> op])

\* the IDs the request of a step carries
RequestIds(step) ==
  CASE step = "remove"  -> idsToRemove
    [] step = "add"     -> idsToAdd
    [] step = "update"  -> Filter(inputs)
    [] step = "members" -> inputs
    [] OTHER            -> << >>

\* the log entry of a request of this step that fails
FailedCall(step) ==
  CASE step = "update" -> FilterCall("update", UpdatePayload(inputs), "failed")
    [] step = "create" /\ revision # "A" ->
         FilterCall("create", CreatePayload(inputs), "failed")
    [] OTHER -> SetCall(step, RequestIds(step), "failed")

\* any request of updateSet fails: the error reaches the caller, nothing else runs
UpdateSetFails ==
  /\ op = "updateSet"
  /\ pc \in {"rename", "read", "remove", "add", "update"}
  /\ calls' = Append(calls, FailedCall(pc))
  /\ pc' = "done"
  /\ result' = SetFailure
  /\ UNCHANGED <<revision, op, inputs, batchVars, pageVars, setVars,
                 catalogVars, sideVars>>

\* imperative, step 1: POST /{setId} { name }
UpdateSetRename ==
  /\ op = "updateSet" /\ pc = "rename"
  /\ calls' = Append(calls, SetCall("rename", << >>, "ok"))
  /\ setName' = "new"
  /\ pc' = "read"
  /\ UNCHANGED <<revision, op, inputs, result, batchVars, pageVars,
                 membership, callNo, diffVars, returns, membersBefore,
                 catalogVars, sideVars>>

\* imperative, steps 2 and 3: GET /{setId}/products, then the diff
UpdateSetRead ==
  /\ op = "updateSet" /\ pc = "read"
  /\ \E current \in Orderings(membership) :
       LET toAdd    == IdsToAdd(inputs, current)
           toRemove == IdsToRemove(inputs, current) IN
       /\ currentProductIds' = current
       /\ idsToAdd' = toAdd
       /\ idsToRemove' = toRemove
       /\ calls' = Append(calls, SetCall("read", << >>, "ok"))
       /\ IF AfterDiff(toRemove, toAdd) = "return"
          THEN Return(membership)
          ELSE /\ pc' = AfterDiff(toRemove, toAdd)
               /\ UNCHANGED <<result, returns>>
  /\ UNCHANGED <<revision, op, inputs, batchVars, pageVars, membership, setName,
                 callNo, membersBefore,
                 catalogVars, sideVars>>

\* imperative, step 4a: DELETE /{setId}/products { product_items: idsToRemove }
UpdateSetRemove ==
  /\ op = "updateSet" /\ pc = "remove"
  /\ calls' = Append(calls, SetCall("remove", idsToRemove, "ok"))
  /\ membership' = membership \ Range(idsToRemove)
  /\ IF AfterDiff(<< >>, idsToAdd) = "return"
     THEN Return(membership')
     ELSE /\ pc' = "add"
          /\ UNCHANGED <<result, returns>>
  /\ UNCHANGED <<revision, op, inputs, batchVars, pageVars, setName, callNo,
                 diffVars, membersBefore,
                 catalogVars, sideVars>>

\* imperative, step 4b: POST /{setId}/products { product_items: idsToAdd }
UpdateSetAdd ==
  /\ op = "updateSet" /\ pc = "add"
  /\ calls' = Append(calls, SetCall("add", idsToAdd, "ok"))
  /\ membership' = membership \cup Range(idsToAdd)
  /\ Return(membership')
  /\ UNCHANGED <<revision, op, inputs, batchVars, pageVars, setName, callNo,
                 diffVars, membersBefore,
                 catalogVars, sideVars>>

\* declarative: POST /{setId} { name, filter }; the provider makes the members
\* of the set the IDs the filter enumerates
UpdateSetDeclarative ==
  /\ op = "updateSet" /\ pc = "update"
  /\ calls' = Append(calls, FilterCall("update", UpdatePayload(inputs), "ok"))
  /\ setName' = "new"
  /\ membership' = Filtered(UpdatePayload(inputs), membership)
  /\ Return(membership')
  /\ UNCHANGED <<revision, op, inputs, batchVars, pageVars, callNo, diffVars,
                 membersBefore,
                 catalogVars, sideVars>>

\* first request of updateSet in a revision
FirstStep(rev) == IF rev = "A" THEN "rename" ELSE "update"

\* the client calls updateSet again with the same arguments
CallAgain ==
  /\ op = "updateSet" /\ pc = "done" /\ callNo < MaxCalls
  /\ callNo' = callNo + 1
  /\ pc' = FirstStep(revision)
  /\ result' = NoResult
  /\ currentProductIds' = << >>
  /\ idsToAdd' = << >>
  /\ idsToRemove' = << >>
  /\ membersBefore' = membership
  /\ UNCHANGED <<revision, op, inputs, calls, batchVars, pageVars,
                 membership, setName, returns,
                 catalogVars, sideVars>>

\* ---- createSet
\* any request of createSet fails: the error reaches the caller; what the
\* earlier request did at the provider stays
CreateSetFails ==
  /\ op = "createSet"
  /\ pc \in {"create", "members"}
  /\ calls' = Append(calls, FailedCall(pc))
  /\ pc' = "done"
  /\ result' = SetFailure
  /\ UNCHANGED <<revision, op, inputs, batchVars, pageVars, setVars,
                 catalogVars, sideVars>>

\* imperative, step 1: POST /{catalogId}/product_sets { name }
CreateSetImperative ==
  /\ op = "createSet" /\ pc = "create" /\ revision = "A"
  /\ calls' = Append(calls, SetCall("create", << >>, "ok"))
  /\ setName' = "new"
  /\ \E members \in NewSetMembers(revision) : membership' = members
  /\ IF AfterCreate(inputs) = "return"
     THEN Return(membership')
     ELSE /\ pc' = AfterCreate(inputs)
          /\ UNCHANGED <<result, returns>>
  /\ UNCHANGED <<revision, op, inputs, batchVars, pageVars, callNo, diffVars,
                 membersBefore,
                 catalogVars, sideVars>>

\* imperative, step 2: POST /{newSetId}/products { product_items: productIds }
CreateSetAddMembers ==
  /\ op = "createSet" /\ pc = "members"
  /\ calls' = Append(calls, SetCall("members", inputs, "ok"))
  /\ membership' = membership \cup Range(inputs)
  /\ Return(membership')
  /\ UNCHANGED <<revision, op, inputs, batchVars, pageVars, setName, callNo,
                 diffVars, membersBefore,
                 catalogVars, sideVars>>

\* declarative: POST /{catalogId}/product_sets { name, filter? }
CreateSetDeclarative ==
  /\ op = "createSet" /\ pc = "create" /\ revision # "A"
  /\ calls' = Append(calls, FilterCall("create", CreatePayload(inputs), "ok"))
  /\ setName' = "new"
  /\ \E unfiltered \in (IF CreatePayload(inputs).hasFilter THEN {{}}
                        ELSE NewSetMembers(revision)) :
       membership' = Filtered(CreatePayload(inputs), unfiltered)
  /\ Return(membership')
  /\ UNCHANGED <<revision, op, inputs, batchVars, pageVars, callNo, diffVars,
                 membersBefore,
                 catalogVars, sideVars>>

\* ---- getSets
SetIds == <<"set", "set2", "set3", "set4">>

\* the sets of the catalog as the provider lists them: the set the client
\* writes, when it exists, and then the others
ListedSets ==
  (IF setName = "" THEN << >>
   ELSE <<[id |-> SetIds[1], name |-> setName, members |-> membership]>>) \o sets

\* the other sets a catalog can hold
OtherSets ==
  UNION {{[i \in 1 .. n |-> [id |-> SetIds[i + 1], name |-> "other",
                              members |-> ms[i]]] : ms \in [1 .. n -> SUBSET IDs]}
         : n \in 0 .. (MaxSets - 1)}

\* setsResponse.data
BasicSets ==
  [i \in 1 .. Len(ListedSets) |->
     [id |-> ListedSets[i].id, name |-> ListedSets[i].name]]

ProductSet(set, productIds) ==
  [id |-> set.id, name |-> set.name, productIds |-> productIds]

\* body of the sub-response to GET {set.id}/products?fields=id
MembersBody(parses, hasData, data) ==
  [parses |-> parses, hasData |-> hasData, data |-> data]

\* elements the provider may put in the batch response for a set with these members
MemberEntries(members) ==
  {NullEntry,
   SubResponse(TRUE, 400, MembersBody(TRUE, FALSE, << >>)),
   SubResponse(TRUE, 200, MembersBody(FALSE, FALSE, << >>)),
   SubResponse(TRUE, 200, MembersBody(TRUE, FALSE, << >>))}
  \cup {SubResponse(TRUE, 200, MembersBody(TRUE, TRUE, d)) : d \in Orderings(members)}

\* the arrays the batch of member reads can resolve with: one element per set,
\* in order, possibly short
RECURSIVE BatchAnswers(_)
BatchAnswers(listed) ==
  IF listed = << >> THEN {<< >>}
  ELSE {<< >>} \cup {<<e>> \o rest : e \in MemberEntries(Head(listed).members),
                                     rest \in BatchAnswers(Tail(listed))}

\* revision C: the latest_product_items the provider embeds in each listed set
RECURSIVE Embedded(_)
Embedded(listed) ==
  IF listed = << >> THEN {<< >>}
  ELSE {<<d>> \o rest : d \in Orderings(Head(listed).members),
                        rest \in Embedded(Tail(listed))}

\* revision A: productIds: []
NotFetched(listed) == {[i \in 1 .. Len(listed) |-> << >>]}

\* revision B, step 3 for one set: productIds stays [] unless the sub-response
\* has code 200 and a body that parses to an object with a data array
SetProductIds(response) ==
  IF response.present /\ response.code = 200
  THEN IF response.body.parses /\ response.body.hasData
       THEN response.body.data ELSE << >>
  ELSE << >>

\* revision B, step 3: basicSets.map((set, index) => ... batchResponses[index] ...)
CombineSets(basicSets, resp) ==
  [i \in 1..Len(basicSets) |->
     ProductSet(basicSets[i],
                SetProductIds(IF i <= Len(resp) THEN resp[i] ELSE NullEntry))]

\* revision B, step 3: the sets whose read is logged as failed
Warnings(basicSets, resp) ==
  Cardinality({i \in 1 .. Len(basicSets) :
                 \/ i > Len(resp)
                 \/ ~(resp[i].present /\ resp[i].code = 200)
                 \/ ~resp[i].body.parses})

\* getSets as a client constructed with a logger and one constructed without
\* run it against the same answers: the requests made, the result, the levels
\* logged, and whether a logging statement threw
FreshRun == [calls |-> << >>, result |-> NoResult, logged |-> << >>, threw |-> FALSE]

\* this.logger.<level>(...): a TypeError when the logger is undefined
LogUnguarded(logger, level, run) ==
  IF run.threw THEN run
  ELSE IF logger THEN [run EXCEPT !.logged = Append(@, level)]
  ELSE [run EXCEPT !.threw = TRUE]

\* this.logger?.<level>(...)
Log(logger, level, run) ==
  IF run.threw THEN run
  ELSE IF logger THEN [run EXCEPT !.logged = Append(@, level)]
  ELSE run

RECURSIVE LogTimes(_, _, _, _)
LogTimes(logger, level, run, n) ==
  IF n = 0 THEN run ELSE LogTimes(logger, level, Log(logger, level, run), n - 1)

\* a request of the run, unless a statement before it threw
Requested(run, kind) ==
  IF run.threw THEN run ELSE [run EXCEPT !.calls = Append(@, kind)]

\* what the caller of the run gets
Settled(run, res) ==
  [run EXCEPT !.result = IF run.threw THEN SetFailure ELSE res]

\* info("Fetching product sets..."), then the listing request
RunList(logger, run) == Requested(Log(logger, "info", run), "list")

\* the client lists the sets after its first set write returned (a session is
\* either repeated updateSet calls or one write followed by a listing)
GetSetsStart ==
  /\ op \in {"updateSet", "createSet"} /\ pc = "done" /\ result.kind = "ok"
  /\ callNo = 1
  /\ op' = "getSets"
  /\ pc' = "list"
  /\ result' = NoResult
  /\ twin' = [logger \in BOOLEAN |-> FreshRun]
  /\ UNCHANGED <<revision, inputs, calls, batchVars, pageVars, setVars,
                 catalogVars, item, sets, procs>>

\* revision A: productIds: [] for every set; revision C: each set's embedded
\* latest_product_items
GetSetsSingleRequest ==
  /\ op = "getSets" /\ pc = "list" /\ revision # "B"
  /\ calls' = Append(calls, SetCall("list", << >>, "ok"))
  /\ \E listed \in (IF revision = "A" THEN NotFetched(ListedSets)
                    ELSE Embedded(ListedSets)) :
       result' = Returned([i \in 1 .. Len(BasicSets) |->
                             ProductSet(BasicSets[i], listed[i])])
  /\ twin' = [logger \in BOOLEAN |->
                Settled(Log(logger, "success", RunList(logger, twin[logger])),
                        result')]
  /\ pc' = "done"
  /\ UNCHANGED <<revision, op, inputs, batchVars, pageVars, setVars,
                 catalogVars, item, sets, procs>>

\* revision B, step 1: GET product_sets?fields=id,name
GetSetsList ==
  /\ op = "getSets" /\ pc = "list" /\ revision = "B"
  /\ BasicSets # << >>
  /\ calls' = Append(calls, SetCall("list", << >>, "ok"))
  /\ twin' = [logger \in BOOLEAN |->
                Log(logger, "info", RunList(logger, twin[logger]))]
  /\ pc' = "reads"
  /\ UNCHANGED <<revision, op, inputs, result, batchVars, pageVars, setVars,
                 catalogVars, item, sets, procs>>

\* revision B, step 1 finds no set: return []
GetSetsNone ==
  /\ op = "getSets" /\ pc = "list" /\ revision = "B"
  /\ BasicSets = << >>
  /\ calls' = Append(calls, SetCall("list", << >>, "ok"))
  /\ result' = Returned(<< >>)
  /\ twin' = [logger \in BOOLEAN |->
                Settled(Log(logger, "success", RunList(logger, twin[logger])),
                        result')]
  /\ pc' = "done"
  /\ UNCHANGED <<revision, op, inputs, batchVars, pageVars, setVars,
                 catalogVars, item, sets, procs>>

\* revision B, steps 2 and 3: the batch of member reads resolves with an array
GetSetsMembers ==
  /\ op = "getSets" /\ pc = "reads"
  /\ calls' = Append(calls, SetCall("reads", << >>, "ok"))
  /\ \E resp \in BatchAnswers(ListedSets) :
       /\ batchResponses' = resp
       /\ result' = Returned(CombineSets(BasicSets, resp))
       /\ twin' = [logger \in BOOLEAN |->
                     Settled(Log(logger, "success",
                                 LogTimes(logger, "warn",
                                          Requested(twin[logger], "reads"),
                                          Warnings(BasicSets, resp))),
                             result')]
  /\ pc' = "done"
  /\ UNCHANGED <<revision, op, inputs, pageVars, setVars,
                 catalogVars, item, sets, procs>>

\* apiRequest or batchRequest of getSets throws: logged and rethrown
GetSetsFails ==
  /\ op = "getSets" /\ pc \in {"list", "reads"}
  /\ calls' = Append(calls, SetCall(pc, << >>, "failed"))
  /\ pc' = "done"
  /\ result' = SetFailure
  /\ twin' = [logger \in BOOLEAN |->
                Settled(Log(logger, "error",
                            IF pc = "list" THEN RunList(logger, twin[logger])
                            ELSE Requested(twin[logger], "reads")),
                        result')]
  /\ UNCHANGED <<revision, op, inputs, batchVars, pageVars, setVars,
                 catalogVars, item, sets, procs>>

InitSet ==
  /\ revision \in Revisions
  /\ op \in {"updateSet", "createSet"}
  /\ inputs \in SeqsUpTo(ProductIDs, MaxDesired)
  /\ pc = IF op = "createSet" THEN "create" ELSE FirstStep(revision)
  /\ calls = << >>
  /\ batchResponses = << >>
  /\ result = NoResult
  /\ pages = << >>
  /\ nextUrl = 0
  /\ allProductsData = << >>
  /\ membership \in (IF op = "createSet" THEN {{}} ELSE SUBSET ProductIDs)
  /\ setName = IF op = "createSet" THEN "" ELSE "old"
  /\ callNo = 1
  /\ currentProductIds = << >>
  /\ idsToAdd = << >>
  /\ idsToRemove = << >>
  /\ returns = << >>
  /\ membersBefore = membership
  /\ catalog = {}
  /\ nextId = 1
  /\ products = {}
  /\ existingRetailerIds = {}
  /\ productsToSubmit = << >>
  /\ rowsLeft = 0
  /\ writesLeft = 0
  /\ item = << >>
  /\ sets = << >>
  /\ twin = << >>
  /\ procs = << >>

NextSet ==
  \/ UpdateSetRename
  \/ UpdateSetRead
  \/ UpdateSetRemove
  \/ UpdateSetAdd
  \/ UpdateSetDeclarative
  \/ UpdateSetFails
  \/ CallAgain
  \/ CreateSetImperative
  \/ CreateSetAddMembers
  \/ CreateSetDeclarative
  \/ CreateSetFails
  \/ GetSetsStart
  \/ GetSetsSingleRequest
  \/ GetSetsList
  \/ GetSetsMembers
  \/ GetSetsFails

SpecSet == InitSet /\ [][NextSet]_vars

\* getSets on a catalog of up to MaxSets sets
InitList ==
  /\ revision \in Revisions
  /\ op = "getSets"
  /\ inputs = << >>
  /\ pc = "list"
  /\ calls = << >>
  /\ batchResponses = << >>
  /\ result = NoResult
  /\ pages = << >>
  /\ nextUrl = 0
  /\ allProductsData = << >>
  /\ setName \in {"", "old"}
  /\ membership \in (IF setName = "" THEN {{}} ELSE SUBSET IDs)
  /\ callNo = 1
  /\ currentProductIds = << >>
  /\ idsToAdd = << >>
  /\ idsToRemove = << >>
  /\ returns = << >>
  /\ membersBefore = {}
  /\ catalog = {}
  /\ nextId = 1
  /\ products = {}
  /\ existingRetailerIds = {}
  /\ productsToSubmit = << >>
  /\ rowsLeft = 0
  /\ writesLeft = 0
  /\ item = << >>
  /\ sets \in OtherSets
  /\ twin = [logger \in BOOLEAN |-> FreshRun]
  /\ procs = << >>

NextList ==
  \/ GetSetsSingleRequest
  \/ GetSetsList
  \/ GetSetsNone
  \/ GetSetsMembers
  \/ GetSetsFails

SpecList == InitList /\ [][NextList]_vars

\* ---- two updateSet calls on one set, in flight together
\* Promise.all over updateSet calls, or two sessions editing the same set: the
\* requests of the two calls reach the provider in any interleaving that keeps
\* the order of each call's own requests.
Callers == {1, 2}

\* a call's position, its desired list, and the imperative call's read and diff
Caller(step, productIds) ==
  [pc |-> step, productIds |-> productIds, currentProductIds |-> << >>,
   idsToAdd |-> << >>, idsToRemove |-> << >>]

RaceCall(p, kind, ids) == [SetCall(kind, ids, "ok") EXCEPT !.call = p]

\* the step after this one, "done" when the call returns
Then(step) == IF step = "return" THEN "done" ELSE step

raceIdle == <<revision, op, inputs, pc, result, batchVars, pageVars, callNo,
              diffVars, returns, membersBefore, catalogVars, item, sets, twin>>

RaceRename(p) ==
  /\ op = "race" /\ procs[p].pc = "rename"
  /\ calls' = Append(calls, RaceCall(p, "rename", << >>))
  /\ setName' = "new"
  /\ procs' = [procs EXCEPT ![p].pc = "read"]
  /\ UNCHANGED <<membership, raceIdle>>

RaceRead(p) ==
  /\ op = "race" /\ procs[p].pc = "read"
  /\ \E current \in Orderings(membership) :
       LET toAdd    == IdsToAdd(procs[p].productIds, current)
           toRemove == IdsToRemove(procs[p].productIds, current) IN
       procs' = [procs EXCEPT ![p].currentProductIds = current,
                              ![p].idsToAdd = toAdd,
                              ![p].idsToRemove = toRemove,
                              ![p].pc = Then(AfterDiff(toRemove, toAdd))]
  /\ calls' = Append(calls, RaceCall(p, "read", << >>))
  /\ UNCHANGED <<membership, setName, raceIdle>>

RaceRemove(p) ==
  /\ op = "race" /\ procs[p].pc = "remove"
  /\ calls' = Append(calls, RaceCall(p, "remove", procs[p].idsToRemove))
  /\ membership' = membership \ Range(procs[p].idsToRemove)
  /\ procs' = [procs EXCEPT ![p].pc = Then(AfterDiff(<< >>, procs[p].idsToAdd))]
  /\ UNCHANGED <<setName, raceIdle>>

RaceAdd(p) ==
  /\ op = "race" /\ procs[p].pc = "add"
  /\ calls' = Append(calls, RaceCall(p, "add", procs[p].idsToAdd))
  /\ membership' = membership \cup Range(procs[p].idsToAdd)
  /\ procs' = [procs EXCEPT ![p].pc = "done"]
  /\ UNCHANGED <<setName, raceIdle>>

RaceDeclarative(p) ==
  /\ op = "race" /\ procs[p].pc = "update"
  /\ calls' = Append(calls, [FilterCall("update", UpdatePayload(procs[p].productIds),
                                        "ok") EXCEPT !.call = p])
  /\ setName' = "new"
  /\ membership' = Filtered(UpdatePayload(procs[p].productIds), membership)
  /\ procs' = [procs EXCEPT ![p].pc = "done"]
  /\ UNCHANGED raceIdle

InitRace ==
  /\ revision \in Revisions
  /\ op = "race"
  /\ inputs = << >>
  /\ pc = "race"
  /\ calls = << >>
  /\ batchResponses = << >>
  /\ result = NoResult
  /\ pages = << >>
  /\ nextUrl = 0
  /\ allProductsData = << >>
  /\ membership \in SUBSET IDs
  /\ setName = "old"
  /\ callNo = 1
  /\ currentProductIds = << >>
  /\ idsToAdd = << >>
  /\ idsToRemove = << >>
  /\ returns = << >>
  /\ membersBefore = membership
  /\ catalog = {}
  /\ nextId = 1
  /\ products = {}
  /\ existingRetailerIds = {}
  /\ productsToSubmit = << >>
  /\ rowsLeft = 0
  /\ writesLeft = 0
  /\ item = << >>
  /\ sets = << >>
  /\ twin = << >>
  /\ procs \in [Callers -> {Caller(FirstStep(revision), ids) :
                              ids \in SeqsUpTo(IDs, MaxRaceDesired)}]

NextRace ==
  \/ \E p \in Callers : RaceRename(p)
  \/ \E p \in Callers : RaceRead(p)
  \/ \E p \in Callers : RaceRemove(p)
  \/ \E p \in Callers : RaceAdd(p)
  \/ \E p \in Callers : RaceDeclarative(p)

SpecRace == InitRace /\ [][NextRace]_vars

\* ------------------------------------------- the product manager's session
\* the SKU the form draws: Math.floor(100000 + Math.random() * 900000), a
\* number in SkuBase .. SkuBase + 899999; the model draws from the first SkuSpan
\* of them. toString() is one-to-one on these numbers, so the SKUs are compared
\* as the numbers they print.
Candidates == SkuBase .. (SkuBase + SkuSpan - 1)

\* a product of the catalog
Product(id, sku) == [id |-> id, retailer_id |-> sku]

\* existingProducts.map(p => p.retailer_id)
RetailerIds(ps) == {p.retailer_id : p \in ps}

\* elements the provider may put in the response array of a write of the session
CatalogEntries ==
  {NullEntry, OkEntry, SubResponse(TRUE, 400, ErrBody("msg", "GraphMethodException", 100))}

\* provider: the sub-requests it carried out are those it answers with code 200
Applied(resp) == {i \in 1..Len(resp) : resp[i].present /\ resp[i].code = 200}

\* provider: the products the applied sub-requests of an add create
Created(skus, resp, firstId) ==
  {Product(firstId + i - 1, skus[i]) : i \in Applied(resp)}

\* provider: the products the applied sub-requests of a delete remove
Deleted(ids, resp, cat) == {p \in cat : \E i \in Applied(resp) : ids[i] = p.id}

\* a form that does not remember the SKUs it drew
Forget(known, sku) == known

\* existingRetailerIds.add(newRetailerId)
Remember(known, sku) == known \cup {sku}

\* a write that deletes again what the provider applied before it reports failure
UndoesApplied(res, applied) == IF res.kind = "error" THEN applied ELSE {}

\* what a batched write takes back of the sub-operations the provider applied:
\* nothing, it throws (or returns) right after reading the responses
Compensated(res, applied) == {}

\* one entry of the session's history of facade operations
Outcome(o, res, listed, items, applied, before) ==
  [op |-> o, kind |-> res.kind, listed |-> listed, items |-> items,
   applied |-> applied, before |-> before]

\* the physical request of the session's operation number n
SessionCall(kind, items, outcome) ==
  [BatchCall(items) EXCEPT !.kind = kind, !.call = Len(returns) + 1,
                           !.status = outcome]

\* the requests that take back `undone`: none when there is nothing to take back
CompensatingCalls(undone) ==
  IF undone = {} THEN << >> ELSE <<SessionCall("rollback", << >>, "ok")>>

sessionIdle == <<revision, inputs, pageVars, membership, setName, callNo,
                 diffVars, membersBefore, sideVars>>

\* fetchProducts: getProducts, then setProducts(fetchedProducts); on an error
\* the list the client holds stays as it was
FetchProducts ==
  /\ pc = "fetch"
  /\ op' = "getProducts"
  /\ \/ /\ products' = catalog
        /\ result' = Returned(<< >>)
        /\ calls' = Append(calls, SessionCall("page", << >>, "ok"))
     \/ /\ products' = products
        /\ result' = PageFailure(<< >>)
        /\ calls' = Append(calls, SessionCall("page", << >>, "failed"))
  /\ returns' = Append(returns,
                  Outcome("getProducts", result', IF result'.kind = "ok" THEN catalog ELSE {},
                          << >>, {}, catalog))
  /\ pc' = "idle"
  /\ UNCHANGED <<sessionIdle, batchVars, catalog, nextId, existingRetailerIds,
                 productsToSubmit, rowsLeft, writesLeft>>

\* handleSubmit begins: the SKUs of the products the client holds
SubmitStart ==
  /\ pc = "idle" /\ writesLeft > 0
  /\ writesLeft' = writesLeft - 1
  /\ \E n \in 1..MaxRows : rowsLeft' = n
  /\ existingRetailerIds' = RetailerIds(products)
  /\ productsToSubmit' = << >>
  /\ op' = "addProducts"
  /\ pc' = "roll"
  /\ result' = NoResult
  /\ UNCHANGED <<sessionIdle, calls, batchVars, returns, catalog, nextId, products>>

\* a generator that returns the same number at every draw
DrawnLowest == {SkuBase}

\* Math.random(): every candidate can come out of a draw
Drawn == Candidates

\* one turn of the do-while for the row at hand: a candidate that is taken is
\* drawn again, a free one is remembered and given to the row
RollSku ==
  /\ pc = "roll" /\ rowsLeft > 0
  /\ \E newRetailerId \in Drawn :
       IF newRetailerId \in existingRetailerIds
       THEN UNCHANGED <<existingRetailerIds, productsToSubmit, rowsLeft>>
       ELSE /\ existingRetailerIds' = Remember(existingRetailerIds, newRetailerId)
            /\ productsToSubmit' = Append(productsToSubmit, newRetailerId)
            /\ rowsLeft' = rowsLeft - 1
  /\ UNCHANGED <<sessionIdle, op, pc, calls, result, batchVars, returns, catalog,
                 nextId, products, writesLeft>>

\* handleSubmit returns early: a row without main image, an invalid product,
\* or media still uploading; its locals are gone. A row is looked at once its
\* do-while has ended, which takes a free candidate
SubmitRejected ==
  /\ pc = "roll"
  /\ rowsLeft = 0 \/ Candidates \ existingRetailerIds # {}
  /\ pc' = "idle"
  /\ existingRetailerIds' = {}
  /\ productsToSubmit' = << >>
  /\ rowsLeft' = 0
  /\ UNCHANGED <<sessionIdle, op, calls, result, batchVars, returns, catalog,
                 nextId, products, writesLeft>>

\* await service.addProducts(productsToSubmit): on success onProductsAdded()
\* fetches the products again, on an error the form shows it
AddProducts ==
  /\ pc = "roll" /\ rowsLeft = 0
  /\ \/ \E resp \in SeqsUpTo(CatalogEntries, Len(productsToSubmit)) :
          LET res     == ReconcileWrite(revision, productsToSubmit, resp)
              created == Created(productsToSubmit, resp, nextId)
              undone  == Compensated(res, created) IN
          /\ batchResponses' = resp
          /\ result' = res
          /\ catalog' = (catalog \cup created) \ undone
          /\ calls' = Append(calls, SessionCall("batch", productsToSubmit, "ok"))
                        \o CompensatingCalls(undone)
          /\ returns' = Append(returns,
                          Outcome("addProducts", res, {}, productsToSubmit,
                                  Applied(resp), catalog))
          /\ pc' = IF res.kind = "ok" THEN "fetch" ELSE "idle"
     \/ /\ batchResponses' = << >>
        /\ result' = [NoResult EXCEPT !.kind = "error", !.errKind = "transport"]
        /\ catalog' = catalog
        /\ calls' = Append(calls, SessionCall("batch", productsToSubmit, "failed"))
        /\ returns' = Append(returns,
                        Outcome("addProducts", result', {}, productsToSubmit, {}, catalog))
        /\ pc' = "idle"
  /\ nextId' = nextId + Len(productsToSubmit)
  /\ existingRetailerIds' = {}
  /\ productsToSubmit' = << >>
  /\ UNCHANGED <<sessionIdle, op, products, rowsLeft, writesLeft>>

\* the order in which Array.from(selectedProducts) lists a selection
Selections(ps) ==
  {ids \in SeqsUpTo({p.id : p \in ps}, MaxRows) :
     Len(ids) > 0 /\ \A i, j \in 1..Len(ids) : i < j => ids[i] < ids[j]}

\* handleDeleteSelected: deleteProducts(productIds); on success the deleted
\* products leave the list the client holds
DeleteSelected ==
  /\ pc = "idle" /\ writesLeft > 0
  /\ writesLeft' = writesLeft - 1
  /\ op' = "deleteProducts"
  /\ \E productIds \in Selections(products) :
       \/ \E resp \in SeqsUpTo(CatalogEntries, Len(productIds)) :
            LET res     == ReconcileWrite(revision, productIds, resp)
                deleted == Deleted(productIds, resp, catalog)
                undone  == Compensated(res, deleted) IN
            /\ batchResponses' = resp
            /\ result' = res
            /\ catalog' = (catalog \ deleted) \cup undone
            /\ calls' = Append(calls, SessionCall("batch", productIds, "ok"))
                          \o CompensatingCalls(undone)
            /\ returns' = Append(returns,
                            Outcome("deleteProducts", res, {}, productIds,
                                    Applied(resp), catalog))
            /\ products' = IF res.kind = "ok"
                           THEN {p \in products : p.id \notin Range(productIds)}
                           ELSE products
       \/ /\ batchResponses' = << >>
          /\ result' = [NoResult EXCEPT !.kind = "error", !.errKind = "transport"]
          /\ catalog' = catalog
          /\ calls' = Append(calls, SessionCall("batch", productIds, "failed"))
          /\ returns' = Append(returns,
                          Outcome("deleteProducts", result', {}, productIds, {}, catalog))
          /\ products' = products
  /\ pc' = "idle"
  /\ UNCHANGED <<sessionIdle, nextId, existingRetailerIds, productsToSubmit, rowsLeft>>

\* the catalogs a session may find
InitialCatalogs ==
  {{}, {Product(1, SkuBase)}, {Product(1, SkuBase), Product(2, SkuBase + 1)}}

\* ProductManager mounts, fetchProducts is on its way; the session makes
\* `writes` submissions and deletions
Mount(writes) ==
  /\ revision = "B"
  /\ op = "mount"
  /\ inputs = << >>
  /\ pc = "fetch"
  /\ calls = << >>
  /\ batchResponses = << >>
  /\ result = NoResult
  /\ pages = << >>
  /\ nextUrl = 0
  /\ allProductsData = << >>
  /\ membership = {}
  /\ setName = ""
  /\ callNo = 1
  /\ currentProductIds = << >>
  /\ idsToAdd = << >>
  /\ idsToRemove = << >>
  /\ returns = << >>
  /\ membersBefore = {}
  /\ catalog \in InitialCatalogs
  /\ nextId = Cardinality(catalog) + 1
  /\ products = {}
  /\ existingRetailerIds = {}
  /\ productsToSubmit = << >>
  /\ rowsLeft = 0
  /\ writesLeft = writes
  /\ item = << >>
  /\ sets = << >>
  /\ twin = << >>
  /\ procs = << >>

InitCatalog == Mount(MaxWrites)

InitWrite == Mount(1)

NextCatalog ==
  \/ FetchProducts
  \/ SubmitStart
  \/ RollSku
  \/ SubmitRejected
  \/ AddProducts
  \/ DeleteSelected

\* a session of MaxWrites submissions and deletions
SpecCatalog == InitCatalog /\ [][NextCatalog]_vars

\* one submission or deletion after the mount
SpecWrite == InitWrite /\ [][NextCatalog]_vars

\* the same, with a random generator that is fair: a turn of the do-while that
\* can draw a free candidate does not lose to taken ones for ever
SpecWriteFair == SpecWrite /\ WF_vars(RollSku)

\* ------------------------------------------------------------ updateProduct
\* The product editor hands updateProduct a partial product; the service
\* copies the fields that are not undefined into the payload under the
\* provider's names and posts the payload in one request.
\* A domain price is a double; the price of n hundredths is the double nearest
\* to n / 100 and is written n here.

Fields ==
  {"retailer_id", "name", "description", "brand", "link", "price", "currency",
   "imageUrl", "videoUrl", "inventory"}

Prices == 0 .. MaxPrice

Inventories == 0 .. MaxInventory

\* Partial<NewProduct>: any subset of the fields
UpdatesOf(S, price, inventory) ==
  [f \in S |-> CASE f = "price" -> price
                 [] f = "inventory" -> inventory
                 [] OTHER -> "new"]

Updates ==
  {UpdatesOf(S, p, i) : S \in SUBSET Fields, p \in Prices, i \in Inventories}

\* the fields updateProduct looks at
Copied == Fields \ {"retailer_id"}

\* the provider's name of a field
Key(f) ==
  CASE f = "link" -> "url"
    [] f = "imageUrl" -> "image_url"
    [] f = "videoUrl" -> "video_url"
    [] OTHER -> f

Field(k) == CHOOSE f \in Copied : Key(f) = k

\* price * 100 in IEEE doubles: the exact product displaced by less than half
\* a minor unit, in FloatScale-ths of a minor unit
FloatErrors == {-1, 0, 1}

Times100(price, err) == price * FloatScale + err

\* Math.floor
Floor(v) == v \div FloatScale

\* Math.round: the nearest integer, halves upwards
Round(v) == (v + FloatScale \div 2) \div FloatScale

\* Math.round(price * 100)
ToMinorUnits(price, err) == Round(Times100(price, err))

\* parseFloat(p.price) / 100: the correctly rounded quotient, which is the
\* double nearest to minor / 100
FromMinorUnits(minor) == minor

AvailabilityInStock(inventory) == "in stock"

Availability(inventory) == IF inventory > 0 THEN "in stock" ELSE "out of stock"

PayloadKeys(updates) ==
  {Key(f) : f \in DOMAIN updates \cap Copied}
    \cup (IF "inventory" \in DOMAIN updates THEN {"availability"} ELSE {})

Payload(updates, err) ==
  [k \in PayloadKeys(updates) |->
     CASE k = "availability" -> Availability(updates["inventory"])
       [] k = "price" -> ToMinorUnits(updates["price"], err)
       [] OTHER -> updates[Field(k)]]

\* the product as the provider holds it before the edit
ProviderKeys == {Key(f) : f \in Copied} \cup {"availability"}

InitialItem ==
  [k \in ProviderKeys |-> CASE k \in {"price", "inventory"} -> 0
                            [] k = "availability" -> "out of stock"
                            [] OTHER -> "old"]

\* POST /{productId} with the payload as form fields: the provider sets the
\* fields it is sent
Edited(it, payload) ==
  [k \in DOMAIN it |-> IF k \in DOMAIN payload THEN payload[k] ELSE it[k]]

ProductCall(payload, outcome) ==
  Authorize([kind |-> "update-product", subs |-> payload, hasFilter |-> FALSE,
             page |-> 0, call |-> callNo, status |-> outcome, token |-> ""])

\* a price the editor wrote or read, for the record of the cycle
PriceSeen(o, price, err) == [call |-> callNo, op |-> o, price |-> price, err |-> err]

productIdle == <<revision, op, batchVars, pageVars, membership, setName,
                 diffVars, membersBefore, catalogVars, sets, twin, procs>>

\* Object.keys(payload).length === 0: nothing is sent
UpdateProductNoChanges ==
  /\ pc = "start" /\ op = "updateProduct"
  /\ \E err \in FloatErrors : DOMAIN Payload(inputs, err) = {}
  /\ result' = Returned("No changes provided.")
  /\ pc' = "done"
  /\ UNCHANGED <<inputs, calls, callNo, returns, item, productIdle>>

\* the one apiRequest, answered
UpdateProductSends ==
  /\ pc = "start" /\ op = "updateProduct"
  /\ \E err \in FloatErrors :
       LET payload == Payload(inputs, err) IN
         /\ DOMAIN payload # {}
         /\ calls' = Append(calls, ProductCall(payload, "ok"))
         /\ item' = Edited(item, payload)
         /\ returns' = IF "price" \in DOMAIN inputs
                         THEN Append(returns,
                                     PriceSeen("updateProduct", inputs["price"], err))
                         ELSE returns
  /\ result' = Returned("success")
  /\ pc' = "written"
  /\ UNCHANGED <<inputs, callNo, productIdle>>

\* the one apiRequest, failed: logged and rethrown
UpdateProductFails ==
  /\ pc = "start" /\ op = "updateProduct"
  /\ \E err \in FloatErrors :
       LET payload == Payload(inputs, err) IN
         /\ DOMAIN payload # {}
         /\ calls' = Append(calls, ProductCall(payload, "failed"))
  /\ result' = SetFailure
  /\ pc' = "done"
  /\ UNCHANGED <<inputs, callNo, returns, item, productIdle>>

\* getProducts maps the product the provider holds back to the domain
ReadPrice ==
  /\ pc = "written" /\ op = "updateProduct"
  /\ returns' = Append(returns,
                       PriceSeen("getProducts", FromMinorUnits(item["price"]), 0))
  /\ pc' = "read"
  /\ UNCHANGED <<inputs, calls, result, callNo, item, productIdle>>

\* the editor submits the price it was shown
EditAgain ==
  /\ pc = "read" /\ op = "updateProduct"
  /\ callNo < MaxCalls
  /\ inputs' = UpdatesOf({"price"}, returns[Len(returns)].price, 0)
  /\ callNo' = callNo + 1
  /\ pc' = "start"
  /\ UNCHANGED <<calls, result, returns, item, productIdle>>

InitProduct ==
  /\ revision = "B"
  /\ op = "updateProduct"
  /\ inputs \in Updates
  /\ pc = "start"
  /\ calls = << >>
  /\ batchResponses = << >>
  /\ result = NoResult
  /\ pages = << >>
  /\ nextUrl = 0
  /\ allProductsData = << >>
  /\ membership = {}
  /\ setName = ""
  /\ callNo = 1
  /\ currentProductIds = << >>
  /\ idsToAdd = << >>
  /\ idsToRemove = << >>
  /\ returns = << >>
  /\ membersBefore = {}
  /\ catalog = {}
  /\ nextId = 1
  /\ products = {}
  /\ existingRetailerIds = {}
  /\ productsToSubmit = << >>
  /\ rowsLeft = 0
  /\ writesLeft = 0
  /\ item = InitialItem
  /\ sets = << >>
  /\ twin = << >>
  /\ procs = << >>

NextProduct ==
  \/ UpdateProductNoChanges
  \/ UpdateProductSends
  \/ UpdateProductFails
  \/ ReadPrice
  \/ EditAgain

\* edits of one product, each read back
SpecProduct == InitProduct /\ [][NextProduct]_vars

\* ---------------------------------------------------------------- Transport
\* apiRequest and batchRequest of revision B: one fetch, the body read as text,
\* then the classification of the response by its status and its text.

Statuses == {200, 400, 500}

\* response.ok
Ok(status) == status \in 200 .. 299

\* response bodies: none, JSON null, a JSON object without error.message, a
\* provider error, a provider error of type OAuthException, and text that is
\* not JSON
Texts ==
  {"", "null", "{}", "{error:{message}}", "{error:{message,type:OAuthException}}",
   "<html>"}

\* JSON.parse(responseText) returns
Decodes(text) == text \notin {"", "<html>"}

\* errorData.error?.message evaluates (null has no property to read) ...
ReadsError(text) == Decodes(text) /\ text # "null"

\* ... to a non-empty string
ProviderMessage(text) ==
  text \in {"{error:{message}}", "{error:{message,type:OAuthException}}"}

IsOAuthError(text) == text = "{error:{message,type:OAuthException}}"

Responses == [status : Statuses, text : Texts]

Methods == {"GET", "POST", "DELETE"}

\* the parts the message of the raised error is made of, in order
Raised(parts) ==
  [NoResult EXCEPT !.kind = "error", !.errKind = "transport", !.details = parts]

\* responseText ? JSON.parse(responseText) : {}   ([] in batchRequest)
EmptyValue(o) == IF o = "batchRequest" THEN "[]" ELSE "{}"

ErrorMessage(response) ==
  IF response.text = "" THEN <<"status">>
  ELSE IF ReadsError(response.text)
    THEN (IF ProviderMessage(response.text) THEN <<"provider">> ELSE <<"raw">>)
           \o (IF IsOAuthError(response.text) THEN <<"oauth-hint">> ELSE << >>)
    ELSE <<"status", "raw">>

Classify(o, response) ==
  IF Ok(response.status)
    THEN IF response.text = "" THEN Returned(EmptyValue(o))
         ELSE IF Decodes(response.text) THEN Returned("parsed")
         ELSE Raised(<<"malformed">>)
    ELSE Raised(ErrorMessage(response))

\* the body goes out only with a method other than GET
TransportCall(o, request) ==
  Authorize([kind |-> o,
             subs |-> IF request.method # "GET" /\ request.hasBody
                        THEN <<"body">> ELSE << >>,
             hasFilter |-> FALSE, page |-> 0, call |-> 1, status |-> "pending",
             token |-> ""])

transportIdle == <<revision, op, inputs, batchVars, pageVars, setVars,
                   catalogVars, sideVars>>

\* await fetch(url.toString(), options)
SendRequest ==
  /\ pc = "start" /\ op \in {"apiRequest", "batchRequest"}
  /\ calls' = Append(calls, TransportCall(op, inputs))
  /\ pc' = "sent"
  /\ UNCHANGED <<result, transportIdle>>

\* the response has arrived
Receive ==
  /\ pc = "sent" /\ op \in {"apiRequest", "batchRequest"}
  /\ result' = Classify(op, inputs.response)
  /\ calls' = Settle(calls, IF result'.kind = "ok" THEN "ok" ELSE "failed")
  /\ pc' = "done"
  /\ UNCHANGED transportIdle

InitTransport ==
  /\ revision = "B"
  /\ op \in {"apiRequest", "batchRequest"}
  /\ inputs \in [method : Methods, hasBody : BOOLEAN, response : Responses]
  /\ op = "batchRequest" => inputs.method = "POST" /\ inputs.hasBody
  /\ pc = "start"
  /\ calls = << >>
  /\ batchResponses = << >>
  /\ result = NoResult
  /\ pages = << >>
  /\ nextUrl = 0
  /\ allProductsData = << >>
  /\ membership = {}
  /\ setName = ""
  /\ callNo = 1
  /\ currentProductIds = << >>
  /\ idsToAdd = << >>
  /\ idsToRemove = << >>
  /\ returns = << >>
  /\ membersBefore = {}
  /\ catalog = {}
  /\ nextId = 1
  /\ products = {}
  /\ existingRetailerIds = {}
  /\ productsToSubmit = << >>
  /\ rowsLeft = 0
  /\ writesLeft = 0
  /\ item = << >>
  /\ sets = << >>
  /\ twin = << >>
  /\ procs = << >>

NextTransport == SendRequest \/ Receive

\* one request through the transport
SpecTransport == InitTransport /\ [][NextTransport]_vars

\* ===================================================================
\*                              CLAIMS
\* ===================================================================

\* positions of the batch response whose sub-response reports failure
ReportedFailures == {i \in 1..Len(batchResponses) :
                       batchResponses[i].present /\ batchResponses[i].code # 200}

\* the k-th smallest element of a finite set of integers
Kth(S, k) == CHOOSE i \in S : Cardinality({j \in S : j < i}) = k - 1

\* a batched write whose batchRequest has returned an array
WriteReconciled ==
  pc = "done" /\ op \in WriteOps /\ Len(calls) = 1 /\ calls[1].status = "ok"

\* C1: a batched write raises an aggregate error exactly when some sub-response
\* reports failure; the error then names the identifying field of input i for
\* exactly the failed positions i, in order; with no failure the full response
\* list is returned.
C1_AggregateNamesExactlyTheFailures ==
  WriteReconciled =>
    LET F == ReportedFailures IN
    /\ (result.kind = "error" /\ result.errKind = "aggregate") <=> F # {}
    /\ F # {} => /\ Len(result.details) = Cardinality(F)
                 /\ \A k \in 1..Len(result.details) :
                      result.details[k].ident = inputs[Kth(F, k)]
    /\ F = {} => result = Returned(batchResponses)

\* positions of the request whose element in the response is null, absent
\* (array too short) or malformed (no code)
MissingOrMalformed ==
  {i \in 1..Len(inputs) :
     \/ i > Len(batchResponses)
     \/ ~batchResponses[i].present
     \/ batchResponses[i].code = -1}

\* C2: in every batched write a missing or malformed element at index i of the
\* response makes the operation fail, and the failure names input i.
C2_MissingElementIsReportedFailed ==
  (WriteReconciled /\ MissingOrMalformed # {}) =>
    /\ result.kind = "error"
    /\ \A i \in MissingOrMalformed :
         \E k \in 1..Len(result.details) : result.details[k].ident = inputs[i]

\* a sub-response carrying a nested error of the authentication class
\* (isOAuthError: error present, type OAuthException or code 1)
CarriesAuthError(res) ==
  /\ res.present /\ res.body.parses /\ res.body.hasError
  /\ (res.body.type = "OAuthException" \/ res.body.code = 1)

\* C3: the aggregate error of a batched write (revision B, the one with the
\* OAuth marker) carries the authentication flag exactly when at least one
\* sub-response carries a nested error of the authentication class.
C3_AuthFlagIffAuthClassError ==
  (WriteReconciled /\ revision = "B" /\ result.kind = "error") =>
    (result.oauth <=>
       \E i \in 1..Len(batchResponses) : CarriesAuthError(batchResponses[i]))

\* C4: no physical batch call carries more than MaxBatchSize sub-operations.
C4_PhysicalCallsWithinMaxBatchSize ==
  \A c \in 1..Len(calls) :
    calls[c].kind = "batch" => Len(calls[c].subs) <= MaxBatchSize

\* C5: a batched operation called with an empty input list issues no network
\* request and returns an empty result (an empty list, an empty Map).
C5_EmptyInputNoRequest ==
  (op \in BatchOps("C") /\ Len(inputs) = 0) =>
    /\ calls = << >>
    /\ pc \in {"start", "done"}
    /\ pc = "done" => result = Returned(<< >>)

C5_Witness ==
  /\ op = "refreshProductsStatus" /\ Len(inputs) = 0 /\ pc = "done"
  /\ result.kind = "ok" /\ result.statusMap = << >> /\ calls = << >>

\* every item of the chain of pages, in page order
RECURSIVE AllItems(_, _)
AllItems(chain, n) == IF n = 0 THEN << >> ELSE AllItems(chain, n - 1) \o chain[n].data

\* C6: getProducts returns exactly the concatenation, in page order, of every
\* page's data array.
C6_ReturnsEveryPageInOrder ==
  (op = "getProducts" /\ pc = "done" /\ result.kind = "ok") =>
    /\ Len(result.value) = Len(AllItems(pages, Len(pages)))
    /\ \A k \in 1..Len(result.value) :
         result.value[k].id = AllItems(pages, Len(pages))[k].id

\* C7: once the fetch of any page has failed, getProducts has raised an error
\* and hands no collection, not even the items of the pages before it.
C7_PageFailureRaisesNoPartial ==
  (op = "getProducts" /\ \E c \in 1..Len(calls) : calls[c].status = "failed") =>
    /\ pc = "done"
    /\ result.kind = "error"
    /\ result.value = << >>

C7_Witness ==
  /\ op = "getProducts" /\ revision = "B" /\ pc = "done"
  /\ Len(calls) = 3 /\ calls[3].status = "failed"
  /\ Len(allProductsData) > 0
  /\ result.kind = "error" /\ result.value = << >>

\* the loop's fetches so far are pages 1, 2, ... in order, each once
FetchedInOrder == \A c \in 1..Len(calls) : calls[c].page = c

\* C8: the while (nextUrl) loop of revision B follows the cursor of every page
\* that has one, also of a page without items, stops at the first page without
\* a cursor, fetches no page twice, and always ends.
C8_LoopFollowsCursorAndEnds ==
  /\ [](revision = "B" /\ op = "getProducts" =>
          /\ FetchedInOrder
          /\ Len(calls) <= Len(pages)
          /\ (pc = "paging" /\ nextUrl = 0) => Len(calls) = Len(pages)
          /\ (pc = "paging" /\ nextUrl # 0) => nextUrl = Len(calls) + 1
          /\ (pc = "done" /\ result.kind = "ok") => Len(calls) = Len(pages))
  /\ <>(pc = "done")

C8_Witness ==
  /\ revision = "B" /\ op = "getProducts" /\ pc = "done" /\ result.kind = "ok"
  /\ Len(pages) = 3 /\ Len(pages[2].data) = 0 /\ Len(pages[3].data) > 0
  /\ Len(calls) = 3 /\ Len(result.value) = Len(pages[1].data) + Len(pages[3].data)

\* the current updateSet call has read the members and computed its diff
DiffComputed ==
  /\ op = "updateSet" /\ revision = "A"
  /\ \E c \in 1..Len(calls) :
       calls[c].call = callNo /\ calls[c].kind = "read" /\ calls[c].status = "ok"

Succeeded(k) == \E i \in 1..Len(returns) : returns[i].call = k

\* the provider's membership when call k returned
MemberAfter(k) == (CHOOSE r \in Range(returns) : r.call = k).membership

\* the requests call k issued
CallsOf(k) == {calls[c] : c \in {i \in 1..Len(calls) : calls[i].call = k}}

C11_DeclarativeFilterAlwaysSent ==
  /\ \A k \in 1..Len(calls) :
       calls[k].kind = "update" => calls[k].hasFilter /\ calls[k].subs = inputs
  /\ (op = "updateSet" /\ revision # "A" /\ pc = "done" /\ result.kind = "ok")
       => membership = Range(inputs)

\* a declarative updateSet to the empty list has emptied a set that had members
C11_Witness ==
  /\ op = "updateSet" /\ revision # "A" /\ pc = "done" /\ result.kind = "ok"
  /\ inputs = << >> /\ membersBefore # {} /\ membership = {}
  /\ calls[Len(calls)].kind = "update" /\ calls[Len(calls)].hasFilter

\* C12: createSet(name, ids) leaves the new set with exactly the members ids,
\* the empty list included: the declarative create request carries a filter
\* that lists exactly ids, the imperative one adds exactly ids.
C12_CreateSetConvergesToIds ==
  /\ \A k \in 1..Len(calls) :
       /\ (calls[k].kind = "create" /\ revision # "A")
            => calls[k].hasFilter /\ calls[k].subs = inputs
       /\ calls[k].kind = "members" => calls[k].subs = inputs
  /\ \A k \in 1..Len(returns) :
       returns[k].op = "createSet" => returns[k].membership = Range(inputs)

\* C13: the imperative updateSet issues its remove request only for a non-empty
\* toRemove and its add request only for a non-empty toAdd; createSet issues
\* no add-members request for an empty list.
C13_NoRequestForEmptyDiff ==
  /\ \A k \in 1..Len(calls) :
       calls[k].kind \in {"remove", "add", "members"} => calls[k].subs # << >>
  /\ (op = "updateSet" /\ pc = "done" /\ result.kind = "ok") =>
       /\ (idsToRemove = << >>) => ~ \E c \in CallsOf(callNo) : c.kind = "remove"
       /\ (idsToAdd = << >>) => ~ \E c \in CallsOf(callNo) : c.kind = "add"
  /\ (op = "createSet" /\ pc = "done" /\ inputs = << >>) =>
       ~ \E k \in 1..Len(calls) : calls[k].kind = "members"

\* an imperative updateSet with nothing to remove has added and returned
C13_Witness ==
  /\ op = "updateSet" /\ revision = "A" /\ pc = "done" /\ result.kind = "ok"
  /\ DiffComputed /\ idsToRemove = << >> /\ idsToAdd # << >>
  /\ \E c \in CallsOf(callNo) : c.kind = "add" /\ c.subs = idsToAdd
  /\ ~ \E c \in CallsOf(callNo) : c.kind = "remove"

\* C14: after an updateSet to D that returned, with no other writer, the set
\* has exactly the members D whichever strategy the revision uses, and D is
\* what getSets reads back afterwards.
C14_BothStrategiesReachDesired ==
  /\ \A k \in 1..Len(returns) :
       returns[k].op = "updateSet" => returns[k].membership = Range(inputs)
  /\ (op = "getSets" /\ pc = "done" /\ result.kind = "ok"
        /\ returns[1].op = "updateSet")
       => Range(result.value[1].productIds) = Range(inputs)

\* C16: apart from the status refresh, an operation whose request failed or
\* whose batch holds a failed sub-response ends in an error.
C16_OnlyStatusRefreshAbsorbs ==
  (/\ pc = "done" /\ op # "refreshProductsStatus"
   /\ \/ (calls # << >> /\ calls[Len(calls)].status = "failed")
      \/ ReportedFailures # {})
    => result.kind = "error"

\* positions whose status sub-response has code 200 and a body that parses
Decoded == {i \in 1..Len(batchResponses) :
              /\ batchResponses[i].present /\ batchResponses[i].code = 200
              /\ batchResponses[i].body.parses}

RequestsOf(k) == {c \in 1..Len(calls) : calls[c].call = k}

\* the last operation of the session was a batched write that raised the
\* aggregate error
WriteFailedInPart ==
  /\ pc = "idle" /\ returns # << >>
  /\ returns[Len(returns)].op \in {"addProducts", "deleteProducts"}
  /\ result.kind = "error" /\ result.errKind = "aggregate"

\* C17: when a batched write raises for a failure of part of its batch, the
\* sub-operations that succeeded stay applied: the client issues no request to
\* take them back, and the catalog holds the effects of exactly the successful
\* sub-operations.
C17_FailedBatchKeepsSuccesses ==
  WriteFailedInPart =>
    LET r == returns[Len(returns)]
        touched == {r.items[i] : i \in r.applied} IN
    /\ Cardinality(RequestsOf(Len(returns))) = 1
    /\ r.op = "addProducts" =>
         /\ r.before \subseteq catalog
         /\ RetailerIds(catalog \ r.before) = touched
         /\ Cardinality(catalog \ r.before) = Cardinality(r.applied)
    /\ r.op = "deleteProducts" =>
         catalog = {p \in r.before : p.id \notin touched}

\* an add of two products of which the second failed left the first in the catalog
C17_Witness ==
  /\ WriteFailedInPart
  /\ returns[Len(returns)].op = "addProducts"
  /\ Len(returns[Len(returns)].items) = 2
  /\ returns[Len(returns)].applied = {1}
  /\ batchResponses[2].present /\ batchResponses[2].code = 400
  /\ Cardinality(catalog) = Cardinality(returns[Len(returns)].before) + 1

\* C18: while the form prepares a batch, and when it submits it, every SKU it
\* generated is absent from the SKUs of the products the client holds, and
\* the SKUs of the batch are pairwise distinct.
C18_GeneratedSkusAreFresh ==
  pc = "roll" =>
    /\ \A i \in 1..Len(productsToSubmit) :
         productsToSubmit[i] \notin RetailerIds(products)
    /\ \A i, j \in 1..Len(productsToSubmit) :
         i # j => productsToSubmit[i] # productsToSubmit[j]

\* a batch of MaxRows rows is ready to submit while the client holds products
C18_Witness ==
  /\ pc = "roll" /\ rowsLeft = 0 /\ Len(productsToSubmit) = MaxRows
  /\ products # {}

\* C19: at every point of a session of submissions and deletions, no two
\* products of the provider's catalog have the same retailer_id.
C19_RetailerIdUniqueInCatalog ==
  \A p, q \in catalog : p.retailer_id = q.retailer_id => p = q

\* C20: a listing, then an addProducts of one product that returns, then a
\* listing: the second listing has one product more than the first and holds
\* a product with the SKU generated for the new one, which the first has not.
C20_ListAddListGrowsByOne ==
  \A k \in 3..Len(returns) :
    (/\ returns[k - 2].op = "getProducts" /\ returns[k - 2].kind = "ok"
     /\ returns[k - 1].op = "addProducts" /\ returns[k - 1].kind = "ok"
     /\ Len(returns[k - 1].items) = 1
     /\ returns[k].op = "getProducts" /\ returns[k].kind = "ok")
    => /\ Cardinality(returns[k].listed) = Cardinality(returns[k - 2].listed) + 1
       /\ returns[k - 1].items[1] \in RetailerIds(returns[k].listed)
       /\ returns[k - 1].items[1] \notin RetailerIds(returns[k - 2].listed)

\* the requests of the edit under way
EditRequests == {i \in 1 .. Len(calls) : calls[i].call = callNo}

\* C21: the payload of updateProduct holds only fields that were supplied;
\* availability is in it exactly when inventory was supplied, is 'in stock'
\* exactly when that inventory is above zero, and goes out with the inventory
\* in the one request of the edit.
C21_SparsePayloadDerivesAvailability ==
  op = "updateProduct" =>
    /\ Cardinality(EditRequests) <= 1
    /\ \A i \in EditRequests :
         LET payload == calls[i].subs IN
           /\ \A k \in DOMAIN payload \ {"availability"} :
                \E f \in DOMAIN inputs : Key(f) = k
           /\ "availability" \in DOMAIN payload <=> "inventory" \in DOMAIN inputs
           /\ "availability" \in DOMAIN payload =>
                /\ "inventory" \in DOMAIN payload
                /\ payload["inventory"] = inputs["inventory"]
                /\ payload["availability"] = "in stock" <=> inputs["inventory"] > 0

C21_Witness ==
  /\ op = "updateProduct" /\ pc = "written"
  /\ DOMAIN inputs = {"inventory", "retailer_id"}
  /\ inputs["inventory"] > 0
  /\ DOMAIN calls[1].subs = {"inventory", "availability"}
  /\ item["availability"] = "in stock"

C22_EveryResponseClassified ==
  (op \in {"apiRequest", "batchRequest"} /\ pc = "done") =>
    LET status == inputs.response.status
        text   == inputs.response.text
        parts  == Range(result.details)
    IN  /\ (Ok(status) /\ text = "") =>
             (result.kind = "ok" /\ result.value = EmptyValue(op))
        /\ (Ok(status) /\ Decodes(text)) =>
             (result.kind = "ok" /\ result.value = "parsed")
        /\ (Ok(status) /\ text # "" /\ ~Decodes(text)) => result.kind = "error"
        /\ ~Ok(status) =>
             /\ result.kind = "error"
             /\ IF ProviderMessage(text) THEN "provider" \in parts
                ELSE /\ "status" \in parts
                     /\ text # "" => "raw" \in parts

\* C23: a transport error is surfaced at once and never retried: within one
\* operation no request is made twice, and the first failed request is the
\* last request, after which the caller has the error.
C23_TransportErrorNeverRetried ==
  op = "getProducts" =>
    /\ \A i, j \in 1 .. Len(calls) :
         i < j => (calls[i].status = "ok" /\ calls[i].page # calls[j].page)
    /\ (calls # << >> /\ calls[Len(calls)].status = "failed") =>
         (pc = "done" /\ result.kind = "error")

C23_Witness ==
  /\ op = "getProducts" /\ revision = "B"
  /\ Len(calls) = MaxPages
  /\ calls[Len(calls)].status = "failed"
  /\ result.kind = "error"

C25_LoggerOnlyObserves ==
  op = "getSets" =>
    /\ twin[FALSE].calls = twin[TRUE].calls
    /\ twin[FALSE].result = twin[TRUE].result
    /\ pc = "done" => twin[FALSE].result = result
    /\ twin[FALSE].logged = << >>

C25_Witness ==
  /\ op = "getSets" /\ pc = "done" /\ revision = "B"
  /\ result.kind = "ok"
  /\ twin[TRUE].logged = <<"info", "info", "warn", "success">>
  /\ twin[FALSE].calls = <<"list", "reads">>

\* C27: listing the sets returns one ProductSet per set the provider lists, in
\* the provider's order, each with all the member IDs of its set, the empty
\* list for a set without members.
C27_ListSetsReturnsEverySetInFull ==
  (op = "getSets" /\ pc = "done" /\ result.kind = "ok") =>
    /\ Len(result.value) = Len(ListedSets)
    /\ \A i \in 1 .. Len(ListedSets) :
         /\ result.value[i].id = ListedSets[i].id
         /\ Range(result.value[i].productIds) = ListedSets[i].members

\* both calls in flight have returned
BothReturned == \A p \in Callers : procs[p].pc = "done"

\* what the two calls asked for
Asked == {Range(procs[p].productIds) : p \in Callers}

\* C28: two updateSet calls on one set run together: with the imperative
\* strategy, each reading the members before the other's writes land, the set
\* can end with members that neither call asked for; with the declarative
\* strategy it always ends with the members one of the two asked for.
C28_OnlyImperativeRaceLosesBoth ==
  (op = "race" /\ BothReturned /\ membership \notin Asked) => revision = "A"

C28_Witness ==
  /\ op = "race" /\ BothReturned /\ revision = "A"
  /\ membership \notin Asked
  /\ \A p \in Callers : Range(procs[p].currentProductIds) = membersBefore

\* the requests of the updateSet call under way, in the order they were issued
ThisCall == SelectSeq(calls, LAMBDA c : c.call = callNo)

\* the requests the imperative updateSet has to issue for its diff
Steps ==
  <<"rename", "read">>
    \o (IF idsToRemove # << >> THEN <<"remove">> ELSE << >>)
    \o (IF idsToAdd # << >> THEN <<"add">> ELSE << >>)

\* C29: the imperative updateSet issues its requests in the order rename, read,
\* remove, add, each after the one before was answered; when one fails no
\* later one is issued, the caller gets the error, and what the earlier ones
\* did at the provider (the new name, the removals) stays.
C29_ImperativeStepsInOrderFailStop ==
  (op = "updateSet" /\ revision = "A") =>
    LET n == Len(ThisCall) IN
      /\ n <= Len(Steps)
      /\ \A i \in 1 .. n : ThisCall[i].kind = Steps[i]
      /\ \A i \in 1 .. (n - 1) : ThisCall[i].status = "ok"
      /\ (pc = "done" /\ result.kind = "ok") => n = Len(Steps)
      /\ (n > 0 /\ ThisCall[n].status = "failed") =>
           /\ pc = "done" /\ result.kind = "error"
           /\ n > 1 => setName = "new"
           /\ membership =
                IF \E i \in 1 .. (n - 1) : ThisCall[i].kind = "remove"
                  THEN membersBefore \ Range(idsToRemove)
                  ELSE membersBefore

C29_Witness ==
  /\ op = "updateSet" /\ revision = "A" /\ pc = "done"
  /\ Len(ThisCall) = 4
  /\ ThisCall[4].kind = "add" /\ ThisCall[4].status = "failed"
  /\ setName = "new"
  /\ membership # membersBefore
  /\ result.kind = "error"

\* the do-while of the row at hand can draw a SKU that is not taken
CandidateFree == Candidates \ existingRetailerIds # {}

\* C30: under a fair random generator the re-roll loop of every row ends
\* whenever some candidate is not in the known set; it can go on for ever only
\* when every candidate is taken.
C30_RerollEndsWhileCandidateFree ==
  \A n \in 1 .. MaxRows :
    (pc = "roll" /\ rowsLeft = n /\ CandidateFree) ~> (pc # "roll" \/ rowsLeft < n)

C30_Witness ==
  /\ pc = "roll" /\ rowsLeft = 0
  /\ Len(productsToSubmit) = MaxRows
  /\ ~CandidateFree

====
